---- MODULE Spec2Model ----
(***************************************************************************)
(* Face-recognition attendance system (src/main.py): the label parser, the *)
(* matcher of recognize_face, the attendance ledger of mark_attendance     *)
(* with its spreadsheet round trip, the run pipeline, and two concurrent   *)
(* writers on one attendance file.                                         *)
(*                                                                         *)
(* Text is a sequence of one-character strings.  Distances, embeddings and *)
(* tolerances are integers in units of 0.1, embeddings one-dimensional, so *)
(* the Euclidean distance is the absolute difference.                      *)
(***************************************************************************)
EXTENDS Integers, Sequences, FiniteSets, TLC

VARIABLES
    known_faces,      \* self.known_faces: the reference embeddings
    known_names,      \* self.known_names: the labels, same order
    attendance_file,  \* the attendance workbook on disk
    today,            \* the date datetime.now() gives
    tick,             \* the time of day datetime.now() gives; one per call
    outcome,          \* the branch on which the last run ended
    ret,              \* the value the operation that ended the run returned
    ident,            \* what recognize_face returned in the last run
    faces,            \* matcher runs: the encodings found in the image
    tol,              \* matcher runs: the tolerance argument
    recog,            \* matcher runs: what recognize_face did
    label,            \* parser runs: full_name
    parsed,           \* parser runs: the (name, roll_no) it parses to
    pc,               \* writers: each writer's position in mark_attendance
    req,              \* writers: each writer's (student_name, roll_no, date)
    chk,              \* writers: what check_duplicate_attendance read
    df                \* writers: what mark_attendance read

vars == <<known_faces, known_names, attendance_file, today, tick, outcome, ret,
          ident, faces, tol, recog, label, parsed, pc, req, chk, df>>

-----------------------------------------------------------------------------
(* Bounds *)

MaxLabelLen == 3
MaxGallery == 2
MaxFaces == 2
MaxCoord == 2
MaxTol == 2
MaxRuns == 3
MaxDate == 2
MaxCalls == 2

-----------------------------------------------------------------------------
(* Text *)

Chars == {"a", "1", "0", "_"}

SeqsUpTo(S, n) == UNION {[1..k -> S] : k \in 0..n}

\* None, and a returned tuple (name, roll_no), as values of one shape
NoneValue == [some |-> FALSE, name |-> <<>>, roll_no |-> <<>>]

Some(p) == [some |-> TRUE, name |-> p.name, roll_no |-> p.roll_no]

\* '_' in full_name
HasUnderscore(s) == \E i \in 1..Len(s) : s[i] = "_"

\* full_name.split('_', 1): the cut is at the first underscore
FirstUnderscore(s) == CHOOSE i \in 1..Len(s) : s[i] = "_" /\ \A j \in 1..(i-1) : s[j] # "_"

Fallback == <<"N", "/", "A">>

parse_label_last(full_name) ==
    IF HasUnderscore(full_name)
    THEN LET i == CHOOSE i \in 1..Len(full_name) :
                      full_name[i] = "_" /\ \A j \in (i+1)..Len(full_name) : full_name[j] # "_"
         IN  [name |-> SubSeq(full_name, 1, i - 1),
              roll_no |-> SubSeq(full_name, i + 1, Len(full_name))]
    ELSE [name |-> full_name, roll_no |-> Fallback]

\* recognize_face, lines 131-139: the (name, roll_no) of a label
parse_label(full_name) ==
    IF HasUnderscore(full_name)
    THEN LET i == FirstUnderscore(full_name)
         IN  [name |-> SubSeq(full_name, 1, i - 1),
              roll_no |-> SubSeq(full_name, i + 1, Len(full_name))]
    ELSE [name |-> full_name, roll_no |-> Fallback]

-----------------------------------------------------------------------------
(* The matcher: recognize_face *)

Abs(x) == IF x < 0 THEN -x ELSE x

\* face_recognition.face_distance: np.linalg.norm(known - enc, axis=1)
face_distance(kf, enc) == [i \in 1..Len(kf) |-> Abs(kf[i] - enc)]

compare_faces_strict(kf, enc, tolerance) ==
    [i \in 1..Len(kf) |-> face_distance(kf, enc)[i] < tolerance]

\* face_recognition.compare_faces: list(face_distance(...) <= tolerance)
compare_faces(kf, enc, tolerance) ==
    [i \in 1..Len(kf) |-> face_distance(kf, enc)[i] <= tolerance]

\* np.argmin: the first index holding the minimum
argmin(d) ==
    CHOOSE i \in 1..Len(d) :
        /\ \A j \in 1..Len(d) : d[i] <= d[j]
        /\ \A j \in 1..(i-1) : d[j] # d[i]

\* recognize_face, lines 118-145, from the captured encoding on
match_encoding(kf, kn, captured_encoding, tolerance) ==
    LET face_distances == face_distance(kf, captured_encoding)
        matches == compare_faces(kf, captured_encoding, tolerance)
    IN  IF \E i \in 1..Len(matches) : matches[i]
        THEN LET best_match_index == argmin(face_distances)
             IN  IF matches[best_match_index]
                 THEN [branch |-> "matched", index |-> best_match_index,
                       value |-> Some(parse_label(kn[best_match_index]))]
                 ELSE [branch |-> "no_match", index |-> 0, value |-> NoneValue]
        ELSE [branch |-> "no_match", index |-> 0, value |-> NoneValue]

recognize_face_reject_many(fs, kf, kn, tolerance) ==
    IF Len(fs) # 1
    THEN [branch |-> "no_face", index |-> 0, value |-> NoneValue]
    ELSE match_encoding(kf, kn, fs[1], tolerance)

\* recognize_face: fs is face_encodings, the encodings found in the image
recognize_face(fs, kf, kn, tolerance) ==
    IF Len(fs) = 0
    THEN [branch |-> "no_face", index |-> 0, value |-> NoneValue]
    ELSE match_encoding(kf, kn, fs[1], tolerance)

-----------------------------------------------------------------------------
(* The attendance workbook and its round trip through pandas *)

\* A cell holds text, a number (its canonical digits) or nothing.
TextCell(s) == [k |-> "str", v |-> s]
NumCell(s) == [k |-> "num", v |-> s]
NaN == [k |-> "nan", v |-> <<>>]

Digits == {"0", "1", "2", "3", "4", "5", "6", "7", "8", "9"}

\* The texts read_excel takes for missing values (keep_default_na), among
\* those the label alphabet and the fallback can spell.
NaValues == {<<>>, <<"N", "/", "A">>, <<"N", "A">>}

IsNA(c) == c.k = "nan" \/ (c.k = "str" /\ c.v \in NaValues)

AllDigits(s) == Len(s) > 0 /\ \A i \in 1..Len(s) : s[i] \in Digits

IsNumeric(c) == c.k = "num" \/ (c.k = "str" /\ AllDigits(c.v))

RECURSIVE Canonical(_)
\* int("007") = 7: the digits without their leading zeros
Canonical(s) == IF Len(s) > 1 /\ s[1] = "0" THEN Canonical(Tail(s)) ELSE s

\* The absent file, the unreadable file, and a readable sheet of rows
\* (Roll No, Name, Date, Time).  Date and Time are "%Y-%m-%d" and "%H:%M:%S"
\* texts, which hold "-" and ":" and so are read back as written; they are
\* kept as the day and the time they print.
Absent == [st |-> "absent", rows |-> <<>>]
Corrupt == [st |-> "corrupt", rows |-> <<>>]
Sheet(rows) == [st |-> "ok", rows |-> rows]

\* The record of lines 180-185
new_record(student_name, roll_no, current_date, current_time) ==
    [roll |-> TextCell(roll_no), name |-> TextCell(student_name),
     date |-> current_date, time |-> current_time]

\* One column of read_excel, no dtype given: a column whose cells are all
\* numbers, numeric texts or missing is converted to numbers; any other
\* column keeps its cells, the missing ones as NaN.
infer_column(col) ==
    IF \A i \in 1..Len(col) : IsNA(col[i]) \/ IsNumeric(col[i])
    THEN [i \in 1..Len(col) |->
            IF IsNA(col[i]) THEN NaN ELSE NumCell(Canonical(col[i].v))]
    ELSE [i \in 1..Len(col) |-> IF IsNA(col[i]) THEN NaN ELSE col[i]]

\* pd.read_excel(self.attendance_file) of a readable sheet
read_excel(rows) ==
    LET rolls == infer_column([i \in 1..Len(rows) |-> rows[i].roll])
        names == infer_column([i \in 1..Len(rows) |-> rows[i].name])
    IN  [i \in 1..Len(rows) |->
            [roll |-> rolls[i], name |-> names[i],
             date |-> rows[i].date, time |-> rows[i].time]]

\* df[(df['Roll No'] == roll_no) & (df['Date'] == date_str)], len > 0:
\* roll_no is text, so only a text cell of the same text compares equal
has_record(frame, roll_no, date_str) ==
    \E i \in 1..Len(frame) :
        frame[i].roll = TextCell(roll_no) /\ frame[i].date = date_str

\* check_duplicate_attendance on the file as read; FileNotFoundError is
\* caught, any other failure to read is raised
check_duplicate_attendance(file, roll_no, date_str) ==
    CASE file.st = "absent" -> "no"
      [] file.st = "corrupt" -> "raised"
      [] OTHER -> IF has_record(read_excel(file.rows), roll_no, date_str)
                  THEN "yes" ELSE "no"

concat_replace(frame, rec) == <<rec>>

\* pd.concat([df, new_record], ignore_index=True)
concat(frame, rec) == Append(frame, rec)

\* lines 172-177: the frame mark_attendance starts from
read_or_new(file) == IF file.st = "absent" THEN <<>> ELSE read_excel(file.rows)

\* df.to_excel(self.attendance_file) that fails after the file was opened
\* for writing: the file is truncated or partly written, and unreadable
failed_write(file) == Corrupt

raised_as_false(file) ==
    [file |-> file, value |-> "False", branch |-> "persistence_failure"]

\* An exception of read_excel or to_excel: mark_attendance catches only
\* FileNotFoundError, so it leaves through run to main, lines 228-233
raised(file) ==
    [file |-> file, value |-> "Raised", branch |-> "persistence_failure"]

\* mark_attendance.  io is what the file system does during the call: "ok",
\* "read_error" (a read of the existing file fails), "open_error" (the file
\* cannot be opened for writing), "write_error" (the write fails under way).
mark_attendance(file, student_name, roll_no, current_date, current_time, io) ==
    LET dup == IF io = "read_error" /\ file.st # "absent"
               THEN "raised"
               ELSE check_duplicate_attendance(file, roll_no, current_date)
    IN  CASE dup = "raised" -> raised(file)
          [] dup = "yes" ->
               [file |-> file, value |-> "False", branch |-> "duplicate"]
          [] OTHER ->
               CASE io = "open_error" ->
                      [file |-> file, value |-> "Raised", branch |-> "persistence_failure"]
                 [] io = "write_error" ->
                      [file |-> failed_write(file), value |-> "Raised",
                       branch |-> "persistence_failure"]
                 [] OTHER ->
                      [file |-> Sheet(concat(read_or_new(file),
                                  new_record(student_name, roll_no,
                                             current_date, current_time))),
                       value |-> "True", branch |-> "marked"]

-----------------------------------------------------------------------------
(* The pipeline: one writer, run after run on the same attendance file *)

\* tolerance=0.6, in units of 0.1
DefaultTolerance == 6

\* The known_faces directory: labels and their embeddings
Roster == << [label |-> <<"J", "_", "0", "7">>, enc |-> 0],
             [label |-> <<"K", "_", "A", "1">>, enc |-> 14],
             [label |-> <<"M">>, enc |-> 28] >>

\* What the camera may show: a face at the tolerance of the first entry,
\* one just beyond it, the other entries exactly
QueryCoords == {6, 7, 14, 28}

IOs == {"ok", "read_error", "open_error", "write_error"}

NoRecog == [branch |-> "idle", index |-> 0, value |-> NoneValue]

Unused ==
    /\ faces = <<>> /\ tol = 0 /\ recog = NoRecog
    /\ label = <<>> /\ parsed = NoneValue

NoWriters ==
    /\ pc = <<>> /\ req = <<>> /\ chk = <<>> /\ df = <<>>

\* __init__ and load_known_faces: the first n files of the directory load
Init ==
    /\ \E n \in 0..Len(Roster) :
          /\ known_faces = [i \in 1..n |-> Roster[i].enc]
          /\ known_names = [i \in 1..n |-> Roster[i].label]
    /\ attendance_file \in {Absent, Sheet(<<>>)}
    /\ today = 1 /\ tick = 0
    /\ outcome = "none" /\ ret = "None" /\ ident = NoneValue
    /\ Unused /\ NoWriters

run_marks_unrecognized(result) == TRUE

\* run, lines 209-212: only a recognized student is marked
run_marks(result) == result # NoneValue

\* run.  captured: capture_image returned a frame; fs: the encodings found
\* in it; d: the date at the call; io: what the file system does.
run(captured, fs, d, io) ==
    /\ tick < MaxRuns
    /\ today' = d
    /\ tick' = tick + 1
    /\ IF Len(known_faces) = 0
       THEN /\ outcome' = "no_known_faces" /\ ret' = "None"
            /\ ident' = NoneValue
            /\ UNCHANGED attendance_file
       ELSE IF ~captured
       THEN /\ outcome' = "no_image" /\ ret' = "None"
            /\ ident' = NoneValue
            /\ UNCHANGED attendance_file
       ELSE LET r == recognize_face(fs, known_faces, known_names, DefaultTolerance)
            IN  /\ ident' = r.value
                /\ IF ~run_marks(r.value)
                   THEN /\ outcome' = r.branch /\ ret' = "None"
                        /\ UNCHANGED attendance_file
                   ELSE LET m == mark_attendance(attendance_file, r.value.name,
                                                 r.value.roll_no, d, tick', io)
                        IN  /\ attendance_file' = m.file
                            /\ outcome' = m.branch
                            /\ ret' = m.value
    /\ UNCHANGED <<known_faces, known_names, faces, tol, recog, label, parsed,
                   pc, req, chk, df>>

\* A run in which capture_image returns None (no camera, Esc) holds no
\* image; any other holds some faces and meets some file system.
Next ==
    \E d \in {today, today + 1} \cap (1..MaxDate) :
        \/ run(FALSE, <<>>, d, "ok")
        \/ \E fs \in SeqsUpTo(QueryCoords, MaxFaces), io \in IOs : run(TRUE, fs, d, io)

Spec == Init /\ [][Next]_vars

-----------------------------------------------------------------------------
(* The matcher alone: any gallery, any image, any tolerance *)

MatchLabels == {<<"a", "_", "1">>, <<"b">>}

MatchInit ==
    /\ \E n \in 0..MaxGallery :
          /\ known_faces \in [1..n -> 0..MaxCoord]
          /\ known_names \in [1..n -> MatchLabels]
    /\ faces \in SeqsUpTo(0..MaxCoord, MaxFaces)
    /\ tol \in 0..MaxTol
    /\ recog = NoRecog
    /\ attendance_file = Absent /\ today = 1 /\ tick = 0
    /\ outcome = "none" /\ ret = "None" /\ ident = NoneValue
    /\ label = <<>> /\ parsed = NoneValue
    /\ NoWriters

Recognize ==
    /\ recog.branch = "idle"
    /\ recog' = recognize_face(faces, known_faces, known_names, tol)
    /\ UNCHANGED <<known_faces, known_names, attendance_file, today, tick, outcome,
                   ret, ident, faces, tol, label, parsed, pc, req, chk, df>>

SpecMatch == MatchInit /\ [][Recognize]_vars

-----------------------------------------------------------------------------
(* The label parser alone: any label *)

ParseLabels == SeqsUpTo(Chars, MaxLabelLen) \ {<<>>}

ParseInit ==
    /\ label \in ParseLabels
    /\ parsed = NoneValue
    /\ known_faces = <<>> /\ known_names = <<>>
    /\ attendance_file = Absent /\ today = 1 /\ tick = 0
    /\ outcome = "none" /\ ret = "None" /\ ident = NoneValue
    /\ faces = <<>> /\ tol = 0 /\ recog = NoRecog
    /\ NoWriters

Parse ==
    /\ ~parsed.some
    /\ parsed' = Some(parse_label(label))
    /\ UNCHANGED <<known_faces, known_names, attendance_file, today, tick, outcome,
                   ret, ident, faces, tol, recog, label, pc, req, chk, df>>

SpecParse == ParseInit /\ [][Parse]_vars

-----------------------------------------------------------------------------
(* Two writers on one attendance file.  Each runs mark_attendance for a    *)
(* recognized student; its reads and its write of the file are single      *)
(* steps, and nothing orders the steps of one writer against the other's.  *)

Writers == {"w1", "w2"}

NoRequest == [name |-> <<>>, roll_no |-> <<>>, date |-> 0, time |-> 0]

WritersInit ==
    /\ known_faces = [i \in 1..Len(Roster) |-> Roster[i].enc]
    /\ known_names = [i \in 1..Len(Roster) |-> Roster[i].label]
    /\ attendance_file = Absent
    /\ today = 1 /\ tick = 0
    /\ pc = [w \in Writers |-> "idle"]
    /\ req = [w \in Writers |-> NoRequest]
    /\ chk = [w \in Writers |-> Absent]
    /\ df = [w \in Writers |-> Absent]
    /\ outcome = "none" /\ ret = "None" /\ ident = NoneValue
    /\ Unused

WritersFrame ==
    UNCHANGED <<known_faces, known_names, outcome, ret, ident,
                faces, tol, recog, label, parsed>>

\* mark_attendance is entered, lines 159-165: the student and the time
Call(w) ==
    /\ pc[w] = "idle"
    /\ tick < MaxCalls
    /\ \E i \in 1..Len(known_names), d \in {today, today + 1} \cap (1..MaxDate) :
          /\ today' = d
          /\ tick' = tick + 1
          /\ req' = [req EXCEPT ![w] =
                       [name |-> parse_label(known_names[i]).name,
                        roll_no |-> parse_label(known_names[i]).roll_no,
                        date |-> d, time |-> tick + 1]]
    /\ pc' = [pc EXCEPT ![w] = "check"]
    /\ UNCHANGED <<attendance_file, chk, df>>
    /\ WritersFrame

\* lines 167-170: check_duplicate_attendance reads the file
Check(w) ==
    /\ pc[w] = "check"
    /\ chk' = [chk EXCEPT ![w] = attendance_file]
    /\ IF check_duplicate_attendance(attendance_file, req[w].roll_no, req[w].date) = "yes"
       THEN pc' = [pc EXCEPT ![w] = "idle"]
       ELSE pc' = [pc EXCEPT ![w] = "read"]
    /\ UNCHANGED <<attendance_file, today, tick, req, df>>
    /\ WritersFrame

\* lines 172-177: mark_attendance reads the file again
Read(w) ==
    /\ pc[w] = "read"
    /\ df' = [df EXCEPT ![w] = attendance_file]
    /\ pc' = [pc EXCEPT ![w] = "write"]
    /\ UNCHANGED <<attendance_file, today, tick, req, chk>>
    /\ WritersFrame

\* lines 179-192: the frame read, with the new record, replaces the file
Write(w) ==
    /\ pc[w] = "write"
    /\ attendance_file' =
          Sheet(concat(read_or_new(df[w]),
                       new_record(req[w].name, req[w].roll_no, req[w].date, req[w].time)))
    /\ pc' = [pc EXCEPT ![w] = "idle"]
    /\ UNCHANGED <<today, tick, req, chk, df>>
    /\ WritersFrame

WritersNext == \E w \in Writers : Call(w) \/ Check(w) \/ Read(w) \/ Write(w)

SpecWriters == WritersInit /\ [][WritersNext]_vars

-----------------------------------------------------------------------------
(* Properties of the label parser *)

NoUnderscoreIn(s) == \A i \in 1..Len(s) : s[i] # "_"

Unknown == <<"u", "n", "k", "n", "o", "w", "n">>

\* What a label must parse to, given the roll number of a label that holds
\* no underscore: name and roll number rebuild the label around its first
\* underscore.
ParsesTo(l, p, sentinel) ==
    IF NoUnderscoreIn(l)
    THEN p.name = l /\ p.roll_no = sentinel
    ELSE /\ NoUnderscoreIn(p.name)
         /\ l = p.name \o <<"_">> \o p.roll_no

\* C5, as claimed: a label with an underscore parses to the text before its
\* first underscore and everything after it; a label without one parses to
\* the whole label and the roll number "unknown".
C5_ParseUnknown == parsed.some => ParsesTo(label, parsed, Unknown)

\* C5, amended: the same, the roll number of a label without an underscore
\* being "N/A".
C5_ParseFallback == parsed.some => ParsesTo(label, parsed, Fallback)

C5_Witness ==
    /\ parsed.some /\ NoUnderscoreIn(label)
    /\ parsed.name = label /\ parsed.roll_no = <<"N", "/", "A">>

-----------------------------------------------------------------------------
(* Properties of the matcher *)

Dist(a, b) == IF a >= b THEN a - b ELSE b - a

\* The entry the matcher must return for query q: the earliest of the
\* entries nearest to q when that distance is within the tolerance, and
\* 0, no entry, otherwise and for the empty gallery.
ExpectedIndex(kf, q, tolerance) ==
    LET n == Len(kf)
        nearest == {i \in 1..n : \A j \in 1..n : Dist(kf[i], q) <= Dist(kf[j], q)}
    IN  IF n = 0 THEN 0
        ELSE LET b == CHOOSE i \in nearest : \A j \in nearest : i <= j
             IN  IF Dist(kf[b], q) <= tolerance THEN b ELSE 0

Recognized == recog.branch # "idle"

\* C4: for every gallery, query and tolerance the matcher returns the
\* identity of the entry at minimum distance, the earliest of them on a tie,
\* exactly when that distance is <= the tolerance; otherwise, and for the
\* empty gallery, it returns no match.
C4_BestWithinTolerance ==
    (Recognized /\ Len(faces) >= 1) =>
        LET b == ExpectedIndex(known_faces, faces[1], tol)
        IN  /\ recog.index = b
            /\ b = 0 => recog.value = NoneValue /\ recog.branch = "no_match"
            /\ b > 0 => /\ recog.branch = "matched"
                         /\ recog.value.some
                         /\ ParsesTo(known_names[b], recog.value, Fallback)

\* Two entries tie at the tolerance and the first is returned; and beside
\* it, runs with an empty gallery and runs with no entry within tolerance.
C4_Witness ==
    /\ Recognized /\ Len(faces) >= 1 /\ Len(known_faces) = 2
    /\ known_faces[1] # known_faces[2]
    /\ known_names[1] # known_names[2]
    /\ Dist(known_faces[1], faces[1]) = tol
    /\ Dist(known_faces[2], faces[1]) = tol
    /\ recog.index = 1 /\ recog.branch = "matched"

\* C7, as claimed: an image with more than one face is never matched: the
\* attempt ends not recognized, with no identity to record.
C7_ManyFacesNotMatched ==
    (Recognized /\ Len(faces) > 1) =>
        recog.branch # "matched" /\ recog.value = NoneValue

\* C7, amended: an image with more than one face is matched on its first
\* face, and ends as the image holding that face alone does.
C7_FirstFaceUsed ==
    (Recognized /\ Len(faces) > 1) =>
        /\ recog.branch \in {"matched", "no_match"}
        /\ recog.index = ExpectedIndex(known_faces, faces[1], tol)
        /\ recog = recognize_face(<<faces[1]>>, known_faces, known_names, tol)

C7_Witness ==
    /\ Recognized /\ Len(faces) > 1
    /\ recog.branch = "matched" /\ recog.value.some
    /\ ExpectedIndex(known_faces, faces[2], tol) # recog.index

-----------------------------------------------------------------------------
(* Properties of the ledger and of the pipeline, one writer *)

Rows == attendance_file.rows

Ran == tick' # tick

RosterRolls == {parse_label(Roster[i].label).roll_no : i \in 1..Len(Roster)}

\* The cell is the Roll No of roll number r: as mark_attendance wrote it, or
\* as a later rewrite of the sheet left it.
Denotes(c, r) == c = TextCell(r) \/ c = infer_column(<<TextCell(r)>>)[1]

RecordsOf(r, d) == {i \in 1..Len(Rows) : Denotes(Rows[i].roll, r) /\ Rows[i].date = d}

\* C1: after any sequence of runs of one writer, from an absent or empty
\* file, the file holds at most one record for every (Roll No, Date).
C1_OneRecordPerDay ==
    \A r \in RosterRolls, d \in 1..MaxDate : Cardinality(RecordsOf(r, d)) <= 1

\* C2: when a call of mark_attendance returned True, the next call for the
\* same student on the same date returns False and writes nothing.
C2_MarkedThenDuplicate ==
    [][(/\ Ran
        /\ outcome = "marked" /\ ident.some
        /\ ident' = ident /\ today' = today
        /\ outcome' \in {"marked", "duplicate"})
       => (ret' = "False" /\ attendance_file' = attendance_file)]_vars

\* C3: a call that returns True changes the file only by appending one
\* record: the records it held are all there, unchanged, in their order.
C3_AppendOnly ==
    [][(Ran /\ outcome' = "marked")
       => (/\ Len(attendance_file'.rows) = Len(Rows) + 1
           /\ SubSeq(attendance_file'.rows, 1, Len(Rows)) = Rows)]_vars

Terminal == {"no_face", "no_match", "marked", "duplicate", "persistence_failure"}

\* C6, as claimed: two attempts that end differently end with different
\* values.
C6_OutcomesDistinct ==
    [][(Ran /\ outcome \in Terminal /\ outcome' \in Terminal /\ outcome' # outcome)
       => ret' # ret]_vars

\* C6, amended: the value tells how the attempt ended, except that None is
\* both no face and no match: True is marked, False is duplicate, an
\* exception is a persistence failure.
C6_ValueTellsOutcome ==
    outcome \in Terminal =>
        /\ ret \in {"None", "True", "False", "Raised"}
        /\ ret = "None" <=> outcome \in {"no_face", "no_match"}
        /\ ret = "True" <=> outcome = "marked"
        /\ ret = "False" <=> outcome = "duplicate"
        /\ ret = "Raised" <=> outcome = "persistence_failure"

C6_Witness ==
    /\ outcome = "persistence_failure" /\ ret = "Raised"
    /\ attendance_file.st = "ok" /\ Len(Rows) >= 1

\* C8: a run that ends in a persistence failure leaves the file as it was.
C8_FailureKeepsFile ==
    [][(Ran /\ outcome' = "persistence_failure")
       => (ret' = "Raised" /\ attendance_file' = attendance_file)]_vars

\* C9: a run writes only after it recognized a student; a run that ends on
\* an empty gallery, no image, no face or no match leaves the file as it
\* was; and a run adds at most one record.
C9_WriteOnlyAfterMatch ==
    [][Ran =>
        /\ attendance_file' # attendance_file => ident'.some
        /\ outcome' \in {"no_known_faces", "no_image", "no_face", "no_match"}
              => attendance_file' = attendance_file
        /\ Len(attendance_file'.rows) <= Len(Rows) + 1]_vars

C9_Witness ==
    /\ outcome = "no_match" /\ ~ident.some
    /\ attendance_file.st = "ok" /\ Len(Rows) >= 1

-----------------------------------------------------------------------------
(* Properties of two writers *)

\* The roll number is read back as the text it was written as.
Stable(r) == infer_column(<<TextCell(r)>>)[1] = TextCell(r)

Writes(w) == pc[w] = "write" /\ pc'[w] = "idle"

\* C10: the guarantees of the ledger rest on the file not changing between
\* a writer's check and its write.  The write of a writer whose check read
\* the file as it still is appends its record and keeps every other, and
\* leaves one record for its (Roll No, Date) when the roll number is read
\* back as written; two writers whose steps interleave reach a file with
\* two records for one (Roll No, Date).
C10_UninterruptedWriteAppends ==
    [][\A w \in Writers :
        (Writes(w) /\ chk[w] = attendance_file) =>
            LET after == attendance_file'.rows
            IN  /\ Len(after) = Len(Rows) + 1
                /\ after[Len(after)] =
                      new_record(req[w].name, req[w].roll_no, req[w].date, req[w].time)
                /\ Stable(req[w].roll_no) =>
                      \A i \in 1..Len(Rows) :
                          ~(/\ Denotes(after[i].roll, req[w].roll_no)
                            /\ after[i].date = req[w].date)]_vars

C10_Witness ==
    \E i, j \in 1..Len(Rows) :
        /\ i < j
        /\ \E r \in RosterRolls : Stable(r) /\ Rows[i].roll = TextCell(r)
        /\ Rows[i].roll = Rows[j].roll
        /\ Rows[i].date = Rows[j].date

====
